---- MODULE Spec2Model ----
(***************************************************************************)
(* A model of the spectre-crawler: the frontier engine (main), the peer    *)
(* task (get_addresses) and the peer session (P2PNode).                    *)
(***************************************************************************)
EXTENDS Integers, Sequences, FiniteSets, Bags, TLC

VARIABLES
    \* ---- frontier engine: main() -------------------------------------
    mpc,          \* position of main: "test", "wait", "for", "finally", "shutdown", "returned"
    tasks,        \* every task created so far, in creation order
    pending,      \* main's `pending`: indices into tasks
    done,         \* main's `done`: the tasks of the current for loop still to handle
    seen,         \* main's `seen`
    bad_ipstrs,   \* main's `bad_ipstrs`
    res,          \* main's `res`
    clean_res,    \* main's `clean_res`
    output,       \* content of the output file
    writes,       \* number of times the output file was opened for writing
    deadline,     \* time.time() >= timeout_time
    rawError,     \* history: the error value of the result each res entry was installed from
    reported,     \* history: every address triple of a result main has handled
    timedOut,     \* history: the tasks whose 120 s wait_for timeout elapsed
    readings,     \* history: what read_root has made of the output file when it read it
    peers,        \* the network when it is fixed: what each address's peer does
    \* ---- one peer task: get_addresses() and its P2PNode ---------------
    spc,                \* position of the task
    address,            \* the address the task was created for
    node_peer_version,  \* self.peer_version
    node_peer_id,       \* self.peer_id
    node_peer_spectred, \* self.peer_spectred
    stream,             \* the inbound half of self.stream: "none", "open", "eof", "cancelled"
    send_queue,         \* the items put on self.send_queue so far, as a bag
    entered,            \* __aenter__ has returned, so __aexit__ will run
    channel_closed,     \* self.channel.close(2) has returned
    addrs,              \* get_addresses' local `addresses`
    prev_size,
    patience,
    peer_id,            \* get_addresses' locals
    peer_spectred,
    loc,
    retries,            \* ipinfo's local
    http_calls,         \* history: number of session.get calls made
    exc,                \* the exception propagating out of the async with body
    ret,                \* what the task returned
    hs_return,          \* history: how handshake() returned: "", "verack", "ready", "eof"
    frames,             \* history: inbound frames handled by handshake()
    junk,               \* history: inbound frames ignored or answered by P2PNode.get_addresses
    got_nonempty,       \* history: some node.get_addresses() call returned a non-empty list
    eof_at,             \* history: the position at which the inbound stream ended
    hs_last,            \* history: the payload of the last frame handshake() handled
    exhausted,          \* history: the while loop of line 197 was left by its test
    grew_at,            \* history: the number of requests sent when `addresses` last grew
    geo_log             \* history: host, result and request count of each finished ipinfo call

\* main's locals and the output file
mvars == <<mpc, tasks, pending, done, seen, bad_ipstrs, res, clean_res, output,
           writes, deadline, rawError, reported, timedOut>>

fvars == <<mvars, readings, peers>>

svars == <<spc, address, node_peer_version, node_peer_id, node_peer_spectred, stream,
           send_queue, entered, channel_closed, addrs, prev_size, patience,
           peer_id, peer_spectred, loc, retries, http_calls, exc, ret, hs_return,
           frames, junk, got_nonempty, eof_at, hs_last, exhausted, grew_at, geo_log>>

vars == <<fvars, svars>>

-----------------------------------------------------------------------------
(* Python values *)

PyNone == [kind |-> "none", val |-> ""]
PyStr(s) == [kind |-> "str", val |-> s]
PyExc(name) == [kind |-> "exc", val |-> name]

NoError == PyStr("")
TimeoutTag == PyStr("timeout")

\* repr() of a str puts it in quotes; repr() of an exception prints its constructor
Repr(v) ==
    IF v.kind = "str" THEN "'" \o v.val \o "'"
    ELSE IF v.kind = "exc" THEN v.val \o "()"
    ELSE "None"

-----------------------------------------------------------------------------
(* Wire addresses.  An ip is named by the hex of its bytes.                *)

DefaultPort == 18111

IpSeed == "08080808"
IpA == "01010101"
IpV6 == "26064700000000000000000000001111"
IpPrivate == "0a000002"
IpLoopback == "7f000001"
IpBad == "0a0b0c"

\* ipaddress.ip_address(bytes) raises ValueError unless 4 or 16 octets are given
Parses(ipb) == ipb # IpBad

IsV6(ipb) == ipb = IpV6

IpText(ipb) ==
    CASE ipb = IpSeed -> "8.8.8.8"
      [] ipb = IpA -> "1.1.1.1"
      [] ipb = IpV6 -> "2606:4700::1111"
      [] ipb = IpPrivate -> "10.0.0.2"
      [] ipb = IpLoopback -> "127.0.0.1"

is_private(ipb) == ipb \in {IpPrivate, IpLoopback}
is_loopback(ipb) == ipb = IpLoopback

\* the filter dropping ipv6 addresses as well
IsPublicV4Only(ipb) == ~is_private(ipb) /\ ~is_loopback(ipb) /\ ~IsV6(ipb)

\* the filter with "or" in place of "and"
IsPublicEither(ipb) == ~is_private(ipb) \/ ~is_loopback(ipb)

\* line 286
IsPublic(ipb) == ~is_private(ipb) /\ ~is_loopback(ipb)

\* the canonical Address of lines 287-290
NewAddress(ipb, port) ==
    IF IsV6(ipb) THEN "ipv6:[" \o IpText(ipb) \o "]:" \o ToString(port)
    ELSE IpText(ipb) \o ":" \o ToString(port)

\* (timestamp, ip, port)
W(ts, ipb) == <<ts, ipb, DefaultPort>>

\* a fixed iteration order of the address triples
WireOrder ==
    << W(1, IpA), W(2, IpA), W(1, IpSeed), W(1, IpV6),
       W(1, IpPrivate), W(1, IpLoopback), W(1, IpBad) >>

SetToSeq(S) == SelectSeq(WireOrder, LAMBDA w : w \in S)

\* the address sets a peer may have served when its task ends
Replies ==
    { {},
      {W(1, IpA), W(2, IpA)},
      {W(1, IpSeed), W(1, IpA), W(1, IpV6)},
      {W(1, IpPrivate), W(1, IpLoopback), W(1, IpBad), W(1, IpV6)} }

\* the address sets a peer may have served before its session broke
PartialReplies == { {}, {W(1, IpSeed), W(1, IpA), W(1, IpV6)} }

PrivateAddresses == {NewAddress(IpPrivate, DefaultPort), NewAddress(IpLoopback, DefaultPort)}

-----------------------------------------------------------------------------
(* The peer task as the frontier sees it: what get_addresses returns.      *)

PeerIdHex == "a1b2"
UserAgent == "/spectred:0.3.16/"
SomeLoc == "52.5,13.4"

Tuple(a, pid, ua, addresses, error, l) ==
    [tag |-> "tuple", address |-> a, peer_id |-> pid, peer_spectred |-> ua,
     addresses |-> addresses, error |-> error, loc |-> l]

NoneResult == [tag |-> "None"]
TimeoutRaised == [tag |-> "TimeoutError"]

\* the results of get_addresses(address, ...) that is not cancelled
TaskReturns(a) ==
    { Tuple(a, PeerIdHex, UserAgent, r, NoError, SomeLoc) : r \in Replies }
    \cup { Tuple(a, PeerIdHex, UserAgent, r, PyExc("AioRpcError"), "") :
                r \in PartialReplies }
    \cup { Tuple(a, "", "", {}, TimeoutTag, "") }

\* a timeout that came back as a result with the "timeout" tag
WaitForReturnsTag(a) == {Tuple(a, "", "", {}, TimeoutTag, "")}

\* asyncio.wait_for(get_addresses(...), timeout=120) when the 120 s elapse:
\* the inner coroutine is cancelled and returns None (line 221), which wait_for
\* hands on, or wait_for raises TimeoutError, depending on the Python version
WaitForTimesOut(a) == {NoneResult, TimeoutRaised}

TaskResults(a, kind) ==
    IF kind = "rec" THEN TaskReturns(a) \cup WaitForTimesOut(a)
    ELSE TaskReturns(a)

-----------------------------------------------------------------------------
(* One peer task in detail: get_addresses() driving a P2PNode.             *)

Patience == 10
DefaultPeerVersion == 2
ReadyVersion == 4
GeoRetries == 2

MaxHandshakeFrames == 3
MaxJunkFrames == 1

\* the protocol versions a peer may advertise
ProtocolVersions == {ReadyVersion - 1, ReadyVersion}

Frame(payload) == [payload |-> payload]
VersionFrame(pv) == [payload |-> "version", protocolVersion |-> pv]
Sentinel == [payload |-> "None"]

\* await self.send_queue.put(item)
Put(queue, item) == queue (+) SetToBag({item})

PyBytes(hex) == [kind |-> "bytes", val |-> hex]
Unset == [kind |-> "unset", val |-> ""]

TimeoutError == PyExc("TimeoutError")
CancelledError == PyExc("CancelledError")

Running == [tag |-> "running"]

\* the address lists a peer may answer a requestAddresses with
AddressLists == { {}, {W(1, IpA), W(1, IpV6)} }

StartAddress == "8.8.8.8:18111"

SessionAddresses == {StartAddress, "1.1.1.1:18111"}

\* lines 44-45: the host part of self.address
HostOf(a) ==
    CASE a = "8.8.8.8:18111" -> "8.8.8.8"
      [] a = "1.1.1.1:18111" -> "1.1.1.1"
      [] a = "1.1.1.1:18112" -> "1.1.1.1"
      [] a = "ipv6:[2606:4700::1111]:18111" -> "2606:4700::1111"

\* line 48: self.start_address.split(":")[0]
StartHost == "8.8.8.8"

\* lines 213-222: what get_addresses returns when exception e (PyNone: none)
\* leaves the async with blocks
ResultFor(e, a, pid, ua, collected, l) ==
    IF e = PyNone THEN Tuple(a, pid, ua, collected, NoError, l)
    ELSE IF e = TimeoutError THEN Tuple(a, pid, ua, collected, TimeoutTag, l)
    ELSE IF e = CancelledError THEN NoneResult
    ELSE Tuple(a, pid, ua, collected, e, l)

\* the version test off by one
HandshakeEndsOnVerackUpTo(pv) == pv <= ReadyVersion

\* line 147
HandshakeEndsOnVerack(pv) == pv < ReadyVersion

\* the loop test giving up one round early
LoopContinuesUntilOne(size, prev, pat) == size > prev \/ pat > 1

\* the loop test without the patience
LoopContinuesWhileGrowing(size, prev, pat) == size > prev

\* line 197
LoopContinues(size, prev, pat) == size > prev \/ pat > 0

\* the number of requestAddresses messages put on the queue so far
Requests == CopiesIn(Frame("requestAddresses"), send_queue)

\* the state of the handshake state table the session is in
HsState ==
    IF hs_return \in {"verack", "ready"} THEN "READY_DONE"
    ELSE IF node_peer_id = PyNone THEN "INIT"
    ELSE IF BagIn(Frame("verack"), send_queue) THEN "AWAIT_READY"
    ELSE "AWAIT_ACK"

SIdle ==
    /\ spc = "idle"
    /\ address = ""
    /\ node_peer_version = DefaultPeerVersion
    /\ node_peer_id = PyNone
    /\ node_peer_spectred = Unset
    /\ stream = "none"
    /\ send_queue = EmptyBag
    /\ entered = FALSE
    /\ channel_closed = FALSE
    /\ addrs = {}
    /\ prev_size = -1
    /\ patience = Patience
    /\ peer_id = ""
    /\ peer_spectred = ""
    /\ loc = ""
    /\ retries = GeoRetries
    /\ http_calls = 0
    /\ exc = PyNone
    /\ ret = Running
    /\ hs_return = ""
    /\ frames = 0
    /\ junk = 0
    /\ got_nonempty = FALSE
    /\ eof_at = ""
    /\ hs_last = ""
    /\ exhausted = FALSE
    /\ grew_at = 0
    /\ geo_log = <<>>

\* the locals of lines 183-188 and the node of lines 98-103, before the
\* channel is ready
SInit ==
    /\ spc = "connect"
    /\ address \in SessionAddresses
    /\ node_peer_version = DefaultPeerVersion
    /\ node_peer_id = PyNone
    /\ node_peer_spectred = Unset
    /\ stream = "none"
    /\ send_queue = EmptyBag
    /\ entered = FALSE
    /\ channel_closed = FALSE
    /\ addrs = {}
    /\ prev_size = -1
    /\ patience = Patience
    /\ peer_id = ""
    /\ peer_spectred = ""
    /\ loc = ""
    /\ retries = GeoRetries
    /\ http_calls = 0
    /\ exc = PyNone
    /\ ret = Running
    /\ hs_return = ""
    /\ frames = 0
    /\ junk = 0
    /\ got_nonempty = FALSE
    /\ eof_at = ""
    /\ hs_last = ""
    /\ exhausted = FALSE
    /\ grew_at = 0
    /\ geo_log = <<>>

\* lines 105-111: the channel is ready within 5 s and the stream is opened
ChannelReady ==
    /\ UNCHANGED <<hs_last, exhausted, grew_at, geo_log>>
    /\ UNCHANGED fvars
    /\ spc = "connect"
    /\ stream' = "open"
    /\ spc' = "handshake"
    /\ UNCHANGED <<address, node_peer_version, node_peer_id, node_peer_spectred,
                   send_queue, entered, channel_closed, addrs, prev_size, patience,
                   peer_id, peer_spectred, loc, retries, http_calls, exc, ret,
                   hs_return, frames, junk, got_nonempty, eof_at>>

\* line 105: wait_for(channel_ready(), 5) raises TimeoutError; __aenter__ has
\* not returned, so the handler of line 213 returns at once
ChannelTimeout ==
    /\ UNCHANGED <<hs_last, exhausted, grew_at, geo_log>>
    /\ UNCHANGED fvars
    /\ spc = "connect"
    /\ exc' = TimeoutError
    /\ ret' = ResultFor(TimeoutError, address, peer_id, peer_spectred, addrs, loc)
    /\ spc' = "returned"
    /\ UNCHANGED <<address, node_peer_version, node_peer_id, node_peer_spectred, stream,
                   send_queue, entered, channel_closed, addrs, prev_size, patience,
                   peer_id, peer_spectred, loc, retries, http_calls,
                   hs_return, frames, junk, got_nonempty, eof_at>>

\* lines 125-157: handshake() handles one inbound frame
HandshakeFrame(payload, pv) ==
    /\ hs_last' = payload
    /\ UNCHANGED <<exhausted, grew_at, geo_log>>
    /\ UNCHANGED fvars
    /\ spc = "handshake"
    /\ stream = "open"
    /\ frames < MaxHandshakeFrames
    /\ frames' = frames + 1
    /\ CASE payload = "version" ->
              /\ node_peer_id' = PyBytes(PeerIdHex)
              /\ node_peer_version' = pv
              /\ node_peer_spectred' = PyStr(UserAgent)
              /\ send_queue' = Put(send_queue, VersionFrame(pv))
              /\ UNCHANGED <<spc, entered, hs_return>>
         [] payload = "verack" ->
              /\ send_queue' = Put(send_queue, Frame("verack"))
              /\ IF HandshakeEndsOnVerack(node_peer_version)
                 THEN /\ hs_return' = "verack"
                      /\ entered' = TRUE
                      /\ spc' = "enter"
                 ELSE UNCHANGED <<spc, entered, hs_return>>
              /\ UNCHANGED <<node_peer_id, node_peer_version, node_peer_spectred>>
         [] payload = "ready" ->
              /\ send_queue' = Put(send_queue, Frame("ready"))
              /\ hs_return' = "ready"
              /\ entered' = TRUE
              /\ spc' = "enter"
              /\ UNCHANGED <<node_peer_id, node_peer_version, node_peer_spectred>>
         [] OTHER ->
              UNCHANGED <<node_peer_id, node_peer_version, node_peer_spectred,
                          send_queue, spc, entered, hs_return>>
    /\ UNCHANGED <<address, stream, channel_closed, addrs, prev_size, patience,
                   peer_id, peer_spectred, loc, retries, http_calls, exc, ret,
                   junk, got_nonempty, eof_at>>

\* line 125: the inbound stream ends; the async for loop is left and
\* handshake() returns as it does after a completed handshake
HandshakeEOF ==
    /\ UNCHANGED <<hs_last, exhausted, grew_at, geo_log>>
    /\ UNCHANGED fvars
    /\ spc = "handshake"
    /\ stream = "open"
    /\ stream' = "eof"
    /\ eof_at' = HsState
    /\ hs_return' = "eof"
    /\ entered' = TRUE
    /\ spc' = "enter"
    /\ UNCHANGED <<address, node_peer_version, node_peer_id, node_peer_spectred,
                   send_queue, channel_closed, addrs, prev_size, patience,
                   peer_id, peer_spectred, loc, retries, http_calls, exc, ret,
                   frames, junk, got_nonempty>>

\* the stream raises (remote reset): during the handshake __aenter__ has not
\* returned and line 216 returns at once; later the exception leaves the
\* async with body through __aexit__
StreamError ==
    /\ UNCHANGED <<hs_last, exhausted, grew_at, geo_log>>
    /\ UNCHANGED fvars
    /\ spc \in {"handshake", "request"}
    /\ stream = "open"
    /\ exc' = PyExc("AioRpcError")
    /\ IF spc = "handshake"
       THEN /\ ret' = ResultFor(exc', address, peer_id, peer_spectred, addrs, loc)
            /\ spc' = "returned"
       ELSE /\ spc' = "aexit"
            /\ UNCHANGED ret
    /\ UNCHANGED <<address, node_peer_version, node_peer_id, node_peer_spectred, stream,
                   send_queue, entered, channel_closed, addrs, prev_size, patience,
                   peer_id, peer_spectred, loc, retries, http_calls,
                   hs_return, frames, junk, got_nonempty, eof_at>>

\* lines 194-196: the first statements of the async with body
Enter ==
    /\ UNCHANGED <<hs_last, exhausted, grew_at, geo_log>>
    /\ UNCHANGED fvars
    /\ spc = "enter"
    /\ IF node_peer_id = PyNone
       THEN \* None has no hex()
            /\ exc' = PyExc("AttributeError")
            /\ spc' = "aexit"
            /\ UNCHANGED <<peer_id, peer_spectred>>
       ELSE /\ peer_id' = node_peer_id.val
            /\ peer_spectred' = node_peer_spectred.val
            /\ spc' = "loop"
            /\ UNCHANGED exc
    /\ UNCHANGED <<address, node_peer_version, node_peer_id, node_peer_spectred, stream,
                   send_queue, entered, channel_closed, addrs, prev_size, patience,
                   loc, retries, http_calls, ret,
                   hs_return, frames, junk, got_nonempty, eof_at>>

\* lines 197-206 and 161-165: the loop test, the patience update and the
\* requestAddresses frame of one round
LoopStep ==
    /\ UNCHANGED <<hs_last, grew_at, geo_log>>
    /\ UNCHANGED fvars
    /\ spc = "loop"
    /\ IF LoopContinues(Cardinality(addrs), prev_size, patience)
       THEN /\ patience' = IF Cardinality(addrs) <= prev_size THEN patience - 1
                           ELSE Patience
            /\ prev_size' = Cardinality(addrs)
            /\ send_queue' = Put(send_queue, Frame("requestAddresses"))
            /\ spc' = "request"
            /\ UNCHANGED exhausted
       ELSE /\ spc' = "ipinfo_start"
            /\ exhausted' = TRUE
            /\ UNCHANGED <<patience, prev_size, send_queue>>
    /\ UNCHANGED <<address, node_peer_version, node_peer_id, node_peer_spectred, stream,
                   entered, channel_closed, addrs,
                   peer_id, peer_spectred, loc, retries, http_calls, exc, ret,
                   hs_return, frames, junk, got_nonempty, eof_at>>

\* lines 166-176 and 207-210: node.get_addresses() handles one inbound frame
RequestFrame(payload, list) ==
    /\ UNCHANGED <<hs_last, exhausted, geo_log>>
    /\ grew_at' = IF payload = "addresses" /\ ~(list \subseteq addrs)
                  THEN Requests ELSE grew_at
    /\ UNCHANGED fvars
    /\ spc = "request"
    /\ stream = "open"
    /\ CASE payload = "addresses" ->
              /\ addrs' = addrs \cup list
              /\ got_nonempty' = (got_nonempty \/ list # {})
              /\ spc' = "loop"
              /\ UNCHANGED <<send_queue, junk>>
         [] payload = "requestAddresses" ->
              /\ junk < MaxJunkFrames
              /\ junk' = junk + 1
              /\ send_queue' = Put(send_queue, Frame("addresses"))
              /\ UNCHANGED <<addrs, got_nonempty, spc>>
         [] OTHER ->
              /\ junk < MaxJunkFrames
              /\ junk' = junk + 1
              /\ UNCHANGED <<addrs, got_nonempty, spc, send_queue>>
    /\ UNCHANGED <<address, node_peer_version, node_peer_id, node_peer_spectred, stream,
                   entered, channel_closed, prev_size, patience,
                   peer_id, peer_spectred, loc, retries, http_calls, exc, ret,
                   hs_return, frames, eof_at>>

\* line 166: the inbound stream ends, or has ended before: the async for loop
\* is left and node.get_addresses() returns None
RequestEOF ==
    /\ UNCHANGED <<hs_last, exhausted, grew_at, geo_log>>
    /\ UNCHANGED fvars
    /\ spc = "request"
    /\ stream \in {"open", "eof"}
    /\ stream' = "eof"
    /\ eof_at' = IF stream = "open" THEN "exchange" ELSE eof_at
    /\ spc' = "loop"
    /\ UNCHANGED <<address, node_peer_version, node_peer_id, node_peer_spectred,
                   send_queue, entered, channel_closed, addrs, prev_size, patience,
                   peer_id, peer_spectred, loc, retries, http_calls, exc, ret,
                   hs_return, frames, junk, got_nonempty>>

\* lines 44-52: ipinfo() up to its first request
IpinfoStart ==
    /\ UNCHANGED <<hs_last, exhausted, grew_at, geo_log>>
    /\ UNCHANGED fvars
    /\ spc = "ipinfo_start"
    /\ IF HostOf(address) = StartHost
       THEN /\ loc' = ""
            /\ spc' = "aexit"
            /\ UNCHANGED retries
       ELSE /\ retries' = GeoRetries
            /\ spc' = "ipinfo"
            /\ UNCHANGED loc
    /\ UNCHANGED <<address, node_peer_version, node_peer_id, node_peer_spectred, stream,
                   send_queue, entered, channel_closed, addrs, prev_size, patience,
                   peer_id, peer_spectred, http_calls, exc, ret,
                   hs_return, frames, junk, got_nonempty, eof_at>>

\* the retry loop running once more than it has attempts
RetryAgainInclusive(r) == r >= 0

\* line 53: while retries > 0
RetryAgain(r) == r > 0

GeoOutcomes == {"status", "client_error", "found", "missing", "bad_body"}

\* lines 53-96: one pass of ipinfo's while loop, with the outcome of session.get
GeoAttempt(outcome) ==
    /\ UNCHANGED <<hs_last, exhausted, grew_at, geo_log>>
    /\ UNCHANGED fvars
    /\ spc = "ipinfo"
    /\ RetryAgain(retries)
    /\ http_calls' = http_calls + 1
    /\ CASE outcome \in {"status", "client_error"} ->
              /\ retries' = retries - 1
              /\ IF RetryAgain(retries') THEN spc' = "ipinfo" ELSE spc' = "aexit"
              /\ loc' = ""
              /\ UNCHANGED exc
         [] outcome = "found" ->
              /\ loc' = SomeLoc
              /\ spc' = "aexit"
              /\ UNCHANGED <<retries, exc>>
         [] outcome = "missing" ->
              /\ loc' = ""
              /\ spc' = "aexit"
              /\ UNCHANGED <<retries, exc>>
         [] outcome = "bad_body" ->
              \* response.json() raises an error that line 85 does not catch
              /\ exc' = PyExc("JSONDecodeError")
              /\ spc' = "aexit"
              /\ UNCHANGED <<retries, loc>>
    /\ UNCHANGED <<address, node_peer_version, node_peer_id, node_peer_spectred, stream,
                   send_queue, entered, channel_closed, addrs, prev_size, patience,
                   peer_id, peer_spectred, ret,
                   hs_return, frames, junk, got_nonempty, eof_at>>

\* the task is cancelled (by the 120 s wait_for or by main) while it is
\* suspended.  Before __aenter__ has returned, and inside __aexit__, nothing
\* more of the node runs and line 221 returns None.
Cancel ==
    /\ UNCHANGED <<hs_last, exhausted, grew_at, geo_log>>
    /\ UNCHANGED fvars
    /\ spc \in {"connect", "handshake", "request", "ipinfo", "join"}
    /\ exc' = CancelledError
    /\ IF spc \in {"request", "ipinfo"}
       THEN /\ spc' = "aexit"
            /\ UNCHANGED ret
       ELSE /\ spc' = "returned"
            /\ ret' = NoneResult
    /\ UNCHANGED <<address, node_peer_version, node_peer_id, node_peer_spectred, stream,
                   send_queue, entered, channel_closed, addrs, prev_size, patience,
                   peer_id, peer_spectred, loc, retries, http_calls,
                   hs_return, frames, junk, got_nonempty, eof_at>>

\* lines 115-121 and 221: __aexit__ up to its first suspension
AExit ==
    /\ UNCHANGED <<hs_last, exhausted, grew_at, geo_log>>
    /\ UNCHANGED fvars
    /\ spc = "aexit"
    /\ send_queue' = Put(send_queue, Sentinel)
    /\ IF exc = CancelledError
       THEN /\ stream' = "cancelled"
            /\ channel_closed' = TRUE
            /\ ret' = NoneResult
            /\ spc' = "returned"
       ELSE /\ spc' = "join"
            /\ UNCHANGED <<stream, channel_closed, ret>>
    /\ UNCHANGED <<address, node_peer_version, node_peer_id, node_peer_spectred,
                   entered, addrs, prev_size, patience,
                   peer_id, peer_spectred, loc, retries, http_calls, exc,
                   hs_return, frames, junk, got_nonempty, eof_at>>

\* lines 120-121 and 213-220: message_stream has drained the queue, join()
\* returns, the channel is closed and get_addresses returns
JoinReturns ==
    /\ UNCHANGED <<hs_last, exhausted, grew_at, geo_log>>
    /\ UNCHANGED fvars
    /\ spc = "join"
    /\ channel_closed' = TRUE
    /\ ret' = ResultFor(exc, address, peer_id, peer_spectred, addrs, loc)
    /\ spc' = "returned"
    /\ UNCHANGED <<address, node_peer_version, node_peer_id, node_peer_spectred, stream,
                   send_queue, entered, addrs, prev_size, patience,
                   peer_id, peer_spectred, loc, retries, http_calls, exc,
                   hs_return, frames, junk, got_nonempty, eof_at>>

SNext ==
    \/ ChannelReady
    \/ ChannelTimeout
    \/ \E payload \in {"version", "verack", "ready", "addresses"}, pv \in ProtocolVersions :
          HandshakeFrame(payload, pv)
    \/ HandshakeEOF
    \/ StreamError
    \/ Enter
    \/ LoopStep
    \/ \E payload \in {"addresses", "requestAddresses", "verack"}, list \in AddressLists :
          RequestFrame(payload, list)
    \/ RequestEOF
    \/ IpinfoStart
    \/ \E outcome \in GeoOutcomes : GeoAttempt(outcome)
    \/ Cancel
    \/ AExit
    \/ JoinReturns

-----------------------------------------------------------------------------
(* main()                                                                  *)

\* the parallelism cap: max(RLIMIT_NOFILE - 20, 1)
Ulimit == 2

MinRecords == 10

\* the seed lists main may be started with: [hostpair]
SeedLists == { << <<"n-mainnet.spectre.ws", "18111">> >>, << <<"8.8.8.8", "18111">> >> }

SeedAddress(hostpair) == hostpair[1] \o ":" \o hostpair[2]

NewTask(a, kind) ==
    [address |-> a, kind |-> kind, st |-> "running", result |-> NoneResult]

InSeq(x, s) == \E i \in 1..Len(s) : s[i] = x

\* the loop noting as neighbors only the addresses it creates a task for
RECURSIVE AddressLoopNewOnly(_, _)
AddressLoopNewOnly(items, st) ==
    IF items = <<>> THEN st
    ELSE
        LET ipstr == items[1][2]
            port == items[1][3]
            rest == Tail(items)
        IN  IF InSeq(ipstr, st.bad_ipstrs) THEN AddressLoopNewOnly(rest, st)
            ELSE IF ~Parses(ipstr)
                THEN AddressLoopNewOnly(rest, [st EXCEPT !.bad_ipstrs = Append(@, ipstr)])
            ELSE IF ~IsPublic(ipstr)
                THEN AddressLoopNewOnly(rest, st)
            ELSE
                LET new_address == NewAddress(ipstr, port)
                IN  IF new_address \in st.seen THEN AddressLoopNewOnly(rest, st)
                    ELSE AddressLoopNewOnly(rest,
                            [st EXCEPT
                                !.neighbors = Append(@, new_address),
                                !.seen = @ \cup {new_address},
                                !.spawn = Append(@, new_address)])

\* lines 282-312: the loop over the addresses of one result.  st carries seen,
\* bad_ipstrs, the neighbors list of the record and the addresses tasks are
\* created for, in order.
RECURSIVE AddressLoop(_, _)
AddressLoop(items, st) ==
    IF items = <<>> THEN st
    ELSE
        LET ipstr == items[1][2]
            port == items[1][3]
            rest == Tail(items)
        IN  IF InSeq(ipstr, st.bad_ipstrs) THEN AddressLoop(rest, st)
            ELSE IF ~Parses(ipstr)
                THEN AddressLoop(rest, [st EXCEPT !.bad_ipstrs = Append(@, ipstr)])
            ELSE IF ~IsPublic(ipstr)
                THEN AddressLoop(rest, st)
            ELSE
                LET new_address == NewAddress(ipstr, port)
                IN  AddressLoop(rest,
                        [st EXCEPT
                            !.neighbors = Append(@, new_address),
                            !.seen = @ \cup {new_address},
                            !.spawn = IF new_address \in st.seen THEN @
                                      ELSE Append(@, new_address)])

\* lines 280-281
InstalledError(error) == IF error # PyNone THEN Repr(error) ELSE error.val

\* lines 273-281: the record main installs for a result
RecordOf(neighbors, result) ==
    [neighbors |-> neighbors, id |-> result.peer_id, spectred |-> result.peer_spectred,
     error |-> InstalledError(result.error), loc |-> result.loc]

\* keeping only the records of peers that reported no error
KeptWithoutError(r) == {i \in DOMAIN r : r[i].neighbors # <<>> /\ r[i].error = Repr(NoError)}

\* lines 320-321: the records that go into clean_res
Kept(r) == {i \in DOMAIN r : r[i].neighbors # <<>>}

\* the threshold test with > in place of >=
WriteAllowedStrict(n) == n > MinRecords

\* line 326
WriteAllowed(n) == n >= MinRecords

InFlight == {i \in DOMAIN tasks : tasks[i].st = "running"}

\* what the output file holds before the crawl
PreviousSnapshot == [nodes |-> <<>>, updated_at |-> "earlier"]

\* no peer is tied to an outcome: a task may end in any of its results
AnyNetwork == <<>>

\* lines 236-254: main(addresses, ...) up to its loop
MainStart(seeds) ==
    /\ mpc = "test"
    /\ tasks = [i \in 1..Len(seeds) |-> NewTask(SeedAddress(seeds[i]), "seed")]
    /\ pending = DOMAIN tasks
    /\ done = {}
    /\ seen = {}
    /\ bad_ipstrs = <<>>
    /\ res = <<>>
    /\ clean_res = <<>>
    /\ output = PreviousSnapshot
    /\ writes = 0
    /\ deadline = FALSE
    /\ rawError = <<>>
    /\ reported = {}
    /\ timedOut = {}
    /\ readings = {}

FInit == peers = AnyNetwork /\ \E seeds \in SeedLists : MainStart(seeds)

\* line 257: the loop condition, evaluated when the for loop is over
LoopTest ==
    /\ UNCHANGED <<svars, readings, peers>>
    /\ mpc = "test"
    /\ mpc' = IF Cardinality(pending) > 0 /\ ~deadline THEN "wait" ELSE "finally"
    /\ UNCHANGED <<tasks, pending, done, seen, bad_ipstrs, res, clean_res, output,
                   writes, deadline, rawError, reported, timedOut>>

\* a peer task runs to its end while main is suspended in asyncio.wait
TaskEnds(t) ==
    /\ UNCHANGED <<svars, readings, peers>>
    /\ mpc = "wait"
    /\ t \in DOMAIN tasks
    /\ tasks[t].st = "running"
    /\ \E r \in TaskResults(tasks[t].address, tasks[t].kind) :
          /\ tasks' = [tasks EXCEPT ![t].st = "finished", ![t].result = r]
          /\ timedOut' = IF r \in WaitForTimesOut(tasks[t].address)
                         THEN timedOut \cup {t} ELSE timedOut
    /\ UNCHANGED <<mpc, pending, done, seen, bad_ipstrs, res, clean_res, output,
                   writes, deadline, rawError, reported>>

\* the clock passes timeout_time while main is suspended
Tick ==
    /\ UNCHANGED <<svars, readings, peers>>
    /\ mpc = "wait"
    /\ ~deadline
    /\ deadline' = TRUE
    /\ UNCHANGED <<mpc, tasks, pending, done, seen, bad_ipstrs, res, clean_res,
                   output, writes, rawError, reported, timedOut>>

\* lines 259-261: asyncio.wait returns with every task that has finished
WaitReturns ==
    /\ UNCHANGED <<svars, readings, peers>>
    /\ mpc = "wait"
    /\ LET fin == {t \in pending : tasks[t].st = "finished"}
       IN  /\ fin # {}
           /\ done' = fin
           /\ pending' = pending \ fin
    /\ mpc' = "for"
    /\ UNCHANGED <<tasks, seen, bad_ipstrs, res, clean_res, output, writes,
                   deadline, rawError, reported, timedOut>>

\* lines 263-312: one iteration of `for task in done`
HandleTask(t) ==
    /\ UNCHANGED <<svars, readings, peers>>
    /\ mpc = "for"
    /\ t \in done
    /\ done' = done \ {t}
    /\ mpc' = IF done' = {} THEN "test" ELSE "for"
    /\ LET result == tasks[t].result
       IN  IF result.tag # "tuple"
           THEN \* result is None, or task.result() raised TimeoutError: continue
                /\ tasks' = [tasks EXCEPT ![t].st = "handled", ![t].result = NoneResult]
                /\ UNCHANGED <<pending, seen, bad_ipstrs, res, rawError, reported>>
           ELSE
                LET addr == result.address
                    st == AddressLoop(SetToSeq(result.addresses),
                              [seen |-> seen, bad_ipstrs |-> bad_ipstrs,
                               neighbors |-> <<>>, spawn |-> <<>>])
                    n == Len(tasks)
                    record == RecordOf(st.neighbors, result)
                IN  /\ res' = [a \in DOMAIN res \cup {addr} |->
                                  IF a = addr THEN record ELSE res[a]]
                    /\ rawError' = [a \in DOMAIN res \cup {addr} |->
                                  IF a = addr THEN result.error ELSE rawError[a]]
                    /\ reported' = reported \cup result.addresses
                    /\ seen' = st.seen
                    /\ bad_ipstrs' = st.bad_ipstrs
                    /\ tasks' = [i \in 1..(n + Len(st.spawn)) |->
                                  IF i = t THEN [tasks[t] EXCEPT !.st = "handled",
                                                                 !.result = NoneResult]
                                  ELSE IF i <= n THEN tasks[i]
                                  ELSE NewTask(st.spawn[i - n], "rec")]
                    /\ pending' = pending \cup ((n + 1)..(n + Len(st.spawn)))
    /\ UNCHANGED <<clean_res, output, writes, deadline, timedOut>>

StripNeighbors(record) ==
    [id |-> record.id, spectred |-> record.spectred, error |-> record.error,
     loc |-> record.loc]

\* lines 314-334: the finally block up to its first suspension
Finally ==
    /\ UNCHANGED <<svars, readings, peers>>
    /\ mpc = "finally"
    /\ tasks' = [i \in DOMAIN tasks |->
                    IF i \in pending /\ tasks[i].st = "running"
                    THEN [tasks[i] EXCEPT !.st = "cancelled"] ELSE tasks[i]]
    /\ LET kept == Kept(res)
           clean == [i \in kept |-> StripNeighbors(res[i])]
       IN  /\ clean_res' = clean
           \* clean_res[i] is the same dict as res[i]: del strips both
           /\ res' = [i \in DOMAIN res |-> IF i \in kept THEN clean[i] ELSE res[i]]
           /\ IF WriteAllowed(Cardinality(DOMAIN clean))
              THEN /\ output' = [nodes |-> clean, updated_at |-> "now"]
                   /\ writes' = writes + 1
              ELSE UNCHANGED <<output, writes>>
    /\ mpc' = IF Cardinality(pending) > 0 THEN "shutdown" ELSE "returned"
    /\ UNCHANGED <<pending, done, seen, bad_ipstrs, deadline, rawError, reported, timedOut>>

\* a cancelled task unwinds: CancelledError is caught at line 221
CancelledTaskEnds(t) ==
    /\ UNCHANGED <<svars, readings, peers>>
    /\ mpc = "shutdown"
    /\ t \in DOMAIN tasks
    /\ tasks[t].st = "cancelled"
    /\ tasks' = [tasks EXCEPT ![t].st = "finished"]
    /\ UNCHANGED <<mpc, pending, done, seen, bad_ipstrs, res, clean_res, output,
                   writes, deadline, rawError, reported, timedOut>>

\* the shutdown loop installing a record for each task it waited for
ShutdownWaitInstalls ==
    /\ UNCHANGED <<svars, readings, peers>>
    /\ mpc = "shutdown"
    /\ LET fin == {t \in pending : tasks[t].st = "finished"}
           late == {tasks[t].address : t \in fin}
       IN  /\ fin # {}
           /\ pending' = pending \ fin
           /\ res' = [a \in DOMAIN res \cup late |->
                        IF a \in DOMAIN res THEN res[a]
                        ELSE RecordOf(<<>>, Tuple(a, "", "", {}, CancelledError, ""))]
           /\ mpc' = IF Cardinality(pending') > 0 THEN "shutdown" ELSE "returned"
    /\ UNCHANGED <<tasks, done, seen, bad_ipstrs, clean_res, output, writes,
                   deadline, rawError, reported, timedOut>>

\* lines 336-343
ShutdownWait ==
    /\ UNCHANGED <<svars, readings, peers>>
    /\ mpc = "shutdown"
    /\ LET fin == {t \in pending : tasks[t].st = "finished"}
       IN  /\ fin # {}
           /\ pending' = pending \ fin
           /\ mpc' = IF Cardinality(pending') > 0 THEN "shutdown" ELSE "returned"
    /\ UNCHANGED <<tasks, done, seen, bad_ipstrs, res, clean_res, output, writes,
                   deadline, rawError, reported, timedOut>>

Next ==
    \/ LoopTest
    \/ \E t \in DOMAIN tasks : TaskEnds(t)
    \/ Tick
    \/ WaitReturns
    \/ \E t \in done : HandleTask(t)
    \/ Finally
    \/ \E t \in DOMAIN tasks : CancelledTaskEnds(t)
    \/ ShutdownWait

Init == FInit /\ SIdle

Spec == Init /\ [][Next]_vars

\* a recursively spawned task ends: its wait_for ends it after 120 s at the latest
RecTaskEnds == \E t \in DOMAIN tasks : tasks[t].kind = "rec" /\ TaskEnds(t)

\* What the event loop guarantees: main runs whenever it can, time passes,
\* cancelled tasks unwind and tasks under wait_for end.  Nothing bounds a
\* seed task, which is created without wait_for (lines 241-252).
Fairness ==
    /\ WF_vars(LoopTest)
    /\ WF_vars(Tick)
    /\ WF_vars(WaitReturns)
    /\ WF_vars(\E t \in done : HandleTask(t))
    /\ WF_vars(Finally)
    /\ WF_vars(\E t \in DOMAIN tasks : CancelledTaskEnds(t))
    /\ WF_vars(ShutdownWait)
    /\ WF_vars(RecTaskEnds)

SpecLive == Init /\ [][Next]_vars /\ Fairness

\* a network in which every peer task ends, the seed tasks included
AnyTaskEnds == \E t \in DOMAIN tasks : TaskEnds(t)

\* main runs whenever it can and every task ends
FairnessAllTasks ==
    /\ WF_vars(LoopTest) /\ WF_vars(WaitReturns)
    /\ WF_vars(\E t \in done : HandleTask(t)) /\ WF_vars(Finally)
    /\ WF_vars(AnyTaskEnds)

\* a crawl that is over before timeout_time
NextBeforeDeadline ==
    \/ LoopTest
    \/ \E t \in DOMAIN tasks : TaskEnds(t)
    \/ WaitReturns
    \/ \E t \in done : HandleTask(t)
    \/ Finally

SpecFair == Init /\ [][NextBeforeDeadline]_vars /\ FairnessAllTasks

-----------------------------------------------------------------------------
(* A crawl of a fixed network: every peer does the same thing each time it *)
(* is contacted, and the crawl is over before timeout_time.                *)

\* two seeds, one of them an address that peers report as well
NetSeeds == << <<"n-mainnet.spectre.ws", "18111">>, <<"8.8.8.8", "18111">> >>

\* the addresses a crawl from NetSeeds can come to
NetAddresses ==
    {SeedAddress(NetSeeds[i]) : i \in DOMAIN NetSeeds}
    \cup {NewAddress(ipb, DefaultPort) : ipb \in {IpSeed, IpA, IpV6}}

\* what a peer does whenever it is contacted: the addresses it serves, how
\* its session ends, and whether that takes more than the 120 s of line 305
PeerOutcomes ==
    { [addresses |-> r, error |-> NoError, slow |-> FALSE] : r \in Replies }
    \cup { [addresses |-> r, error |-> PyExc("AioRpcError"), slow |-> FALSE] :
                r \in PartialReplies \ {{}} }
    \cup { [addresses |-> r, error |-> NoError, slow |-> TRUE] :
                r \in PartialReplies \ {{}} }

\* get_addresses(a, ...) run to its end against the peer of a
PeerReturns(a) ==
    LET o == peers[a]
    IN  Tuple(a, PeerIdHex, UserAgent, o.addresses, o.error,
              IF o.error = NoError THEN SomeLoc ELSE "")

\* the results of a task for a: only the tasks of lines 294-306 are under
\* asyncio.wait_for
PeerResults(a, kind) ==
    IF peers[a].slow /\ kind = "rec" THEN WaitForTimesOut(a) ELSE {PeerReturns(a)}

\* a peer task runs to its end while main is suspended in asyncio.wait
PeerTaskEnds(t) ==
    /\ UNCHANGED <<svars, readings, peers>>
    /\ mpc = "wait"
    /\ t \in DOMAIN tasks
    /\ tasks[t].st = "running"
    /\ \E r \in PeerResults(tasks[t].address, tasks[t].kind) :
          /\ tasks' = [tasks EXCEPT ![t].st = "finished", ![t].result = r]
          /\ timedOut' = IF r \in WaitForTimesOut(tasks[t].address)
                         THEN timedOut \cup {t} ELSE timedOut
    /\ UNCHANGED <<mpc, pending, done, seen, bad_ipstrs, res, clean_res, output,
                   writes, deadline, rawError, reported>>

NetInit ==
    /\ MainStart(NetSeeds)
    /\ peers \in [NetAddresses -> PeerOutcomes]
    /\ SIdle

NetNext ==
    \/ LoopTest
    \/ \E t \in DOMAIN tasks : PeerTaskEnds(t)
    \/ WaitReturns
    \/ \E t \in done : HandleTask(t)
    \/ Finally

SpecNet == NetInit /\ [][NetNext]_vars

\* main's loop when the tasks complete one at a time, in the order of their
\* creation.  st carries the tasks created so far (queue), the one to complete
\* next, seen, bad_ipstrs and res.
RECURSIVE CrawlInOrder(_)
CrawlInOrder(st) ==
    IF st.next > Len(st.queue) THEN st
    ELSE
        LET task == st.queue[st.next]
            result == CHOOSE r \in PeerResults(task.address, task.kind) : TRUE
        IN  IF result.tag # "tuple"
            THEN CrawlInOrder([st EXCEPT !.next = @ + 1])
            ELSE
                LET al == AddressLoop(SetToSeq(result.addresses),
                              [seen |-> st.seen, bad_ipstrs |-> st.bad_ipstrs,
                               neighbors |-> <<>>, spawn |-> <<>>])
                    record == RecordOf(al.neighbors, result)
                IN  CrawlInOrder(
                        [next |-> st.next + 1,
                         queue |-> st.queue \o [i \in 1..Len(al.spawn) |->
                                                  NewTask(al.spawn[i], "rec")],
                         seen |-> al.seen,
                         bad_ipstrs |-> al.bad_ipstrs,
                         res |-> [a \in DOMAIN st.res \cup {result.address} |->
                                    IF a = result.address THEN record ELSE st.res[a]]])

\* the crawl of NetSeeds in which tasks complete in the order of their creation
InOrder ==
    CrawlInOrder([next |-> 1,
                  queue |-> [i \in 1..Len(NetSeeds) |-> NewTask(SeedAddress(NetSeeds[i]), "seed")],
                  seen |-> {}, bad_ipstrs |-> <<>>, res |-> <<>>])

\* lines 319-323 for the crawl in order
InOrderKept == [i \in Kept(InOrder.res) |-> StripNeighbors(InOrder.res[i])]

-----------------------------------------------------------------------------
(* The end of a crawl on its own: main at the finally block, for a family   *)
(* of results maps of up to MaxRecords records.                            *)

MaxRecords == 11

RecordAddress(i) == "9.9.9." \o ToString(i) \o ":" \o ToString(DefaultPort)

\* nOk peers that succeeded and nErr peers whose session broke, each with one
\* public neighbour, then nEmpty peers without neighbours; one more address is
\* in flight when straggler is set
WInitWith(nOk, nErr, nEmpty, straggler) ==
    LET n == nOk + nErr + nEmpty
        ResultAt(i) ==
            IF i <= nOk THEN Tuple(RecordAddress(i), PeerIdHex, UserAgent, {}, NoError, SomeLoc)
            ELSE IF i <= nOk + nErr
                THEN Tuple(RecordAddress(i), PeerIdHex, UserAgent, {}, PyExc("AioRpcError"), "")
            ELSE Tuple(RecordAddress(i), "", "", {}, TimeoutTag, "")
        NeighborsAt(i) == IF i <= nOk + nErr THEN <<RecordAddress(i + 1)>> ELSE <<>>
        handled == [i \in 1..n |->
                       [address |-> RecordAddress(i),
                        kind |-> IF i = 1 THEN "seed" ELSE "rec",
                        st |-> "handled", result |-> NoneResult]]
    IN  /\ mpc = "finally"
        /\ res = [a \in {RecordAddress(i) : i \in 1..n} |->
                    LET i == CHOOSE j \in 1..n : RecordAddress(j) = a
                    IN  RecordOf(NeighborsAt(i), ResultAt(i))]
        /\ rawError = [a \in {RecordAddress(i) : i \in 1..n} |->
                    LET i == CHOOSE j \in 1..n : RecordAddress(j) = a
                    IN  ResultAt(i).error]
        /\ seen = {RecordAddress(i + 1) : i \in 1..(nOk + nErr)}
        /\ tasks = IF straggler THEN Append(handled, NewTask(RecordAddress(n + 1), "rec"))
                   ELSE handled
        /\ pending = IF straggler THEN {n + 1} ELSE {}
        /\ deadline = straggler
        /\ done = {}
        /\ bad_ipstrs = <<>>
        /\ clean_res = <<>>
        /\ output = PreviousSnapshot
        /\ writes = 0
        /\ reported = {}
        /\ timedOut = {}
        /\ readings = {}
        /\ peers = AnyNetwork

WInit ==
    \E nOk \in 0..MaxRecords, nErr \in 0..MaxRecords, nEmpty \in 0..MaxRecords,
       straggler \in BOOLEAN :
        /\ nOk + nErr + nEmpty \in 1..MaxRecords
        /\ WInitWith(nOk, nErr, nEmpty, straggler)

WNext ==
    \/ Finally
    \/ \E t \in DOMAIN tasks : CancelledTaskEnds(t)
    \/ ShutdownWait

WriteInit == WInit /\ SIdle

SpecWrite == WriteInit /\ [][WNext]_vars

-----------------------------------------------------------------------------
(* The write of the snapshot as a reader of the output file sees it: the    *)
(* finally block of main with json.dump taken chunk by chunk, next to     *)
(* read_root of the web application.                                       *)

\* the keys of the records above, as sort_keys=True orders their text
\* ("9.9.9.10:18111" sorts before "9.9.9.1:18111": "0" is less than ":")
KeyOrder ==
    << RecordAddress(10), RecordAddress(11), RecordAddress(12), RecordAddress(13),
       RecordAddress(1), RecordAddress(2), RecordAddress(3), RecordAddress(4),
       RecordAddress(5), RecordAddress(6), RecordAddress(7), RecordAddress(8),
       RecordAddress(9) >>

SortedKeys(S) == SelectSeq(KeyOrder, LAMBDA k : k \in S)

\* a file that holds the node entries of the keys in text and is not closed
\* by "updated_at" and the final brace
Unfinished(text) == [text |-> text]

\* lines 314-329: the finally block up to open(output, "w"), which truncates
\* the file
FinallyOpen ==
    /\ UNCHANGED <<svars, readings, peers>>
    /\ mpc = "finally"
    /\ tasks' = [i \in DOMAIN tasks |->
                    IF i \in pending /\ tasks[i].st = "running"
                    THEN [tasks[i] EXCEPT !.st = "cancelled"] ELSE tasks[i]]
    /\ LET kept == Kept(res)
           clean == [i \in kept |-> StripNeighbors(res[i])]
       IN  /\ clean_res' = clean
           /\ res' = [i \in DOMAIN res |-> IF i \in kept THEN clean[i] ELSE res[i]]
           /\ IF WriteAllowed(Cardinality(DOMAIN clean))
              THEN /\ output' = Unfinished(<<>>)
                   /\ writes' = writes + 1
                   /\ mpc' = "dump"
              ELSE /\ UNCHANGED <<output, writes>>
                   /\ mpc' = IF Cardinality(pending) > 0 THEN "shutdown" ELSE "returned"
    /\ UNCHANGED <<pending, done, seen, bad_ipstrs, deadline, rawError, reported, timedOut>>

\* lines 327-334: json.dump writes the entry of the next node, or, after the
\* last one, "updated_at" and the final brace, and the file is closed
DumpChunk ==
    /\ UNCHANGED <<svars, readings, peers>>
    /\ mpc = "dump"
    /\ LET keys == SortedKeys(DOMAIN clean_res)
           n == Len(output.text)
       IN  IF n < Len(keys)
           THEN /\ output' = Unfinished(Append(output.text, keys[n + 1]))
                /\ UNCHANGED mpc
           ELSE /\ output' = [nodes |-> clean_res, updated_at |-> "now"]
                /\ mpc' = IF Cardinality(pending) > 0 THEN "shutdown" ELSE "returned"
    /\ UNCHANGED <<tasks, pending, done, seen, bad_ipstrs, res, clean_res, writes,
                   deadline, rawError, reported, timedOut>>

\* lines 327-334: a write to the file raises OSError (the disk is full); the
\* exception leaves the finally block and main
DumpRaises ==
    /\ UNCHANGED <<svars, readings, peers>>
    /\ mpc = "dump"
    /\ mpc' = "raised"
    /\ UNCHANGED <<tasks, pending, done, seen, bad_ipstrs, res, clean_res, output,
                   writes, deadline, rawError, reported, timedOut>>

\* src/main.py lines 86-91: what read_root makes of the file
ReadOutcome(content) ==
    IF "nodes" \notin DOMAIN content THEN "invalid JSON"
    ELSE IF content = PreviousSnapshot THEN "previous"
    ELSE "new"

\* src/main.py lines 79-112: a request is served while the crawler runs in
\* the scheduler's thread
ReadRoot ==
    /\ UNCHANGED svars
    /\ readings' = readings \cup {ReadOutcome(output)}
    /\ readings' # readings
    /\ UNCHANGED <<mvars, peers>>

FNext ==
    \/ FinallyOpen
    \/ DumpChunk
    \/ DumpRaises
    \/ ReadRoot
    \/ \E t \in DOMAIN tasks : CancelledTaskEnds(t)
    \/ ShutdownWait

FileInit == WInit /\ SIdle

SpecFile == FileInit /\ [][FNext]_vars

\* main before any crawl, for the specification of one peer task
FIdle ==
    /\ mpc = "idle"
    /\ tasks = <<>>
    /\ pending = {}
    /\ done = {}
    /\ seen = {}
    /\ bad_ipstrs = <<>>
    /\ res = <<>>
    /\ clean_res = <<>>
    /\ output = PreviousSnapshot
    /\ writes = 0
    /\ deadline = FALSE
    /\ rawError = <<>>
    /\ reported = {}
    /\ timedOut = {}
    /\ readings = {}
    /\ peers = AnyNetwork

SessionInit == SInit /\ FIdle

SpecSession == SessionInit /\ [][SNext]_vars

-----------------------------------------------------------------------------
(* The geolocation lookups of one crawl: the ipinfo() calls of the peer     *)
(* tasks, one after the other.                                             *)

MaxLookups == 2

\* the addresses of the peers that are looked up: one host under two ports,
\* an ipv6 host and the start address
GeoAddresses ==
    {"1.1.1.1:18111", "1.1.1.1:18112", "ipv6:[2606:4700::1111]:18111", StartAddress}

\* a peer task for address a at line 211, after a handshake by verack and a
\* saturation loop in which every round returned an empty list
AtIpinfo(a) ==
    /\ spc = "ipinfo_start"
    /\ address = a
    /\ node_peer_version = ReadyVersion - 1
    /\ node_peer_id = PyBytes(PeerIdHex)
    /\ node_peer_spectred = PyStr(UserAgent)
    /\ stream = "open"
    /\ send_queue = SetToBag({VersionFrame(ReadyVersion - 1), Frame("verack")})
                        (+) [m \in {Frame("requestAddresses")} |-> Patience + 1]
    /\ entered = TRUE
    /\ channel_closed = FALSE
    /\ addrs = {}
    /\ prev_size = 0
    /\ patience = 0
    /\ peer_id = PeerIdHex
    /\ peer_spectred = UserAgent
    /\ loc = ""
    /\ retries = GeoRetries
    /\ http_calls = 0
    /\ exc = PyNone
    /\ ret = Running
    /\ hs_return = "verack"
    /\ frames = 2
    /\ junk = 0
    /\ got_nonempty = FALSE
    /\ eof_at = ""
    /\ hs_last = "verack"
    /\ exhausted = TRUE
    /\ grew_at = 0

GInit == geo_log = <<>> /\ \E a \in GeoAddresses : AtIpinfo(a)

\* ipinfo() has returned or raised; its outcome is noted, and the task of
\* another peer reaches its own ipinfo() call with a P2PNode of its own
NextLookup(a) ==
    /\ UNCHANGED <<fvars, readings>>
    /\ spc = "aexit"
    /\ Len(geo_log) + 1 < MaxLookups
    \* main creates the tasks it spawns for addresses it has not seen
    /\ a # address
    /\ \A i \in DOMAIN geo_log : geo_log[i].address # a
    /\ geo_log' = Append(geo_log, [address |-> address, host |-> HostOf(address),
                                   loc |-> loc, calls |-> http_calls,
                                   raised |-> exc # PyNone])
    /\ address' = a
    /\ spc' = "ipinfo_start"
    /\ loc' = ""
    /\ http_calls' = 0
    /\ exc' = PyNone
    /\ UNCHANGED <<node_peer_version, node_peer_id, node_peer_spectred, stream,
                   send_queue, entered, channel_closed, addrs, prev_size, patience,
                   peer_id, peer_spectred, retries, ret, hs_return, frames, junk,
                   got_nonempty, eof_at, hs_last, exhausted, grew_at>>

GNext ==
    \/ IpinfoStart
    \/ \E outcome \in GeoOutcomes : GeoAttempt(outcome)
    \/ \E a \in GeoAddresses : NextLookup(a)

GeoInit == GInit /\ FIdle

SpecGeo == GeoInit /\ [][GNext]_vars

-----------------------------------------------------------------------------
(* The frontier engine: properties                                         *)

\* C1: during one crawl at most one get_addresses task is ever created for
\* an address, seed addresses included.
C1_OneTaskPerAddress ==
    \A i, j \in DOMAIN tasks : tasks[i].address = tasks[j].address => i = j

\* C2: the number of in-flight peer sessions (tasks created and not yet
\* completed) never exceeds the parallelism cap.
C2_InFlightWithinCap == Cardinality(InFlight) <= Ulimit

\* C3: at the end of a crawl the output file is written if and only if at
\* least MinRecords records have a non-empty neighbors list, the file then
\* holds exactly those records, and otherwise its content is left as it was.
C3_WriteIffThreshold ==
    [][ mpc = "finally" =>
          LET kept == {a \in DOMAIN res : res[a].neighbors # <<>>}
          IN  IF Cardinality(kept) >= MinRecords
              THEN /\ writes' = writes + 1
                   /\ DOMAIN output'.nodes = kept
              ELSE /\ writes' = writes
                   /\ output' = output ]_vars

C3_Witness ==
    /\ mpc = "returned"
    /\ writes = 1
    /\ Cardinality(DOMAIN clean_res) = MinRecords
    /\ output # PreviousSnapshot

SuccessfulPeers == {a \in DOMAIN res : rawError[a] = NoError}

\* C4 as claimed: a run that ends with fewer than MinRecords successful
\* peers (peers whose task returned no error) writes no snapshot.
C4_NoWriteBelowSuccessful ==
    mpc \in {"shutdown", "returned"} /\ Cardinality(SuccessfulPeers) < MinRecords
        => writes = 0

\* C4 as amended: the threshold counts every peer that served at least one
\* public address, failed or not: with fewer than MinRecords of them no write
\* occurs, and with MinRecords of them the snapshot is written even when
\* fewer than MinRecords of them succeeded.
C4_ThresholdCountsFailedPeers ==
    [][ mpc = "finally" =>
          LET served == {a \in DOMAIN res : res[a].neighbors # <<>>}
              ok == {a \in served : rawError[a] = NoError}
              failed == {a \in served : rawError[a] # NoError}
          IN  /\ Cardinality(ok) + Cardinality(failed) < MinRecords => writes' = 0
              /\ Cardinality(ok) + Cardinality(failed) >= MinRecords
                    => /\ writes' = 1
                       /\ DOMAIN clean_res' = ok \cup failed ]_vars

C4_Witness ==
    /\ mpc = "returned"
    /\ writes = 1
    /\ Cardinality(SuccessfulPeers) < MinRecords
    /\ \E a \in DOMAIN output.nodes : rawError[a] # NoError

\* C5: the canonical address of a private or loopback ip a peer returned is
\* never in seen, never in a neighbors list, and no task is created for it.
C5_PrivateNeverKept ==
    \A p \in PrivateAddresses :
        /\ p \notin seen
        /\ \A a \in DOMAIN res :
              "neighbors" \in DOMAIN res[a] => ~InSeq(p, res[a].neighbors)
        /\ \A t \in DOMAIN tasks : tasks[t].address # p

C5_Witness ==
    /\ W(1, IpPrivate) \in reported
    /\ W(1, IpLoopback) \in reported
    /\ NewAddress(IpV6, DefaultPort) \in seen

\* C6: the record installed for a task that completed without failure has
\* the empty string as its error field.
C6_EmptyErrorOnSuccess ==
    \A a \in DOMAIN res : rawError[a] = NoError => res[a].error = ""

-----------------------------------------------------------------------------
(* The peer task: properties                                               *)

HandshakeCompleted == hs_return \in {"verack", "ready"}

C9_VersionSplit ==
    [][ spc = "handshake" /\ node_peer_id # PyNone /\ frames' = frames + 1 =>
          /\ hs_last' = "verack" /\ node_peer_version < ReadyVersion =>
                /\ spc' = "enter"
                /\ hs_return' = "verack"
                /\ BagIn(Frame("verack"), send_queue')
                /\ ~BagIn(Frame("ready"), send_queue')
          /\ hs_last' = "verack" /\ node_peer_version >= ReadyVersion =>
                /\ spc' = "handshake"
                /\ hs_return' = ""
          /\ node_peer_version >= ReadyVersion /\ hs_return' \in {"verack", "ready"} =>
                /\ hs_last' = "ready"
                /\ BagIn(Frame("ready"), send_queue') ]_vars

C9_Witness ==
    /\ hs_return = "ready"
    /\ node_peer_version >= ReadyVersion
    /\ BagIn(Frame("verack"), send_queue)
    /\ BagIn(Frame("ready"), send_queue)

\* C10: after the inbound stream has ended in a non-terminal handshake state
\* the session never goes on to the address exchange, and the task returns
\* with an error.
C10_EOFInHandshakeFails ==
    eof_at \in {"INIT", "AWAIT_ACK", "AWAIT_READY"} =>
        /\ spc \notin {"loop", "request", "ipinfo_start", "ipinfo"}
        /\ spc = "returned" /\ ret.tag = "tuple" => ret.error # NoError

\* C11: when the inbound stream ends while node.get_addresses() waits for an
\* addresses frame, the call fails: the saturation loop does not go on, and
\* the task returns with a non-empty error.
C11_EOFInExchangeFails ==
    eof_at = "exchange" =>
        /\ spc \notin {"loop", "request", "ipinfo_start", "ipinfo"}
        /\ spc = "returned" /\ ret.tag = "tuple" => ret.error # NoError

\* C15: once the saturation loop has been left by its test, whatever the
\* geolocation lookup does, the task returns without error, and with an empty
\* loc unless the lookup succeeded.
C15_GeoFailureLeavesErrorEmpty ==
    exhausted /\ spc = "returned" /\ ret.tag = "tuple" =>
        /\ ret.error = NoError
        /\ ret.loc \in {"", SomeLoc}

\* C16: one ipinfo() call makes at most GeoRetries requests: after a non-200
\* status or a transport error the lookup goes on to another request while
\* fewer than GeoRetries were made, and after the last failed one it returns
\* the empty location without a further request.
C16_AtMostTwoRequests ==
    /\ [](http_calls <= GeoRetries)
    /\ [][ spc = "ipinfo" /\ retries' = retries - 1 =>
             /\ http_calls' = http_calls + 1
             /\ IF http_calls' < GeoRetries
                THEN spc' = "ipinfo" /\ exc' = PyNone
                ELSE spc' = "aexit" /\ loc' = "" /\ exc' = PyNone ]_vars

C16_Witness ==
    /\ spc = "returned"
    /\ ret.tag = "tuple"
    /\ http_calls = GeoRetries
    /\ retries = 0
    /\ ret.loc = ""
    /\ ret.error = NoError

\* C18: while no version frame has been received a verack or ready frame is
\* ignored: nothing is sent for it and handshake() does not return as
\* completed, so a completed handshake has the peer id recorded.
C18_InitIgnoresVerackAndReady ==
    node_peer_id = PyNone =>
        /\ ~HandshakeCompleted
        /\ ~BagIn(Frame("verack"), send_queue)
        /\ ~BagIn(Frame("ready"), send_queue)

\* C19: when the saturation loop is left after a round that grew the set of
\* addresses, exactly Patience requests were sent after the last round that
\* grew it.
C19_TenRequestsAfterLastGrowth ==
    exhausted /\ grew_at > 0 => Requests - grew_at = Patience

\* every request so far was answered at once by an addresses frame with an
\* empty list
OnlyEmptyLists == ~got_nonempty /\ junk = 0 /\ eof_at = ""

\* C20: for a peer that answers every requestAddresses with an empty list the
\* saturation loop is left after exactly Patience + 1 requests, with patience
\* at zero, and the task returns an empty set of addresses.
C20_EmptyPeerReleasedAfterElevenRequests ==
    /\ OnlyEmptyLists => Requests <= Patience + 1
    /\ OnlyEmptyLists /\ exhausted =>
          /\ Requests = Patience + 1
          /\ patience = 0
          /\ addrs = {}
          /\ spc = "returned" /\ ret.tag = "tuple" => ret.addresses = {}

C20_Witness ==
    /\ OnlyEmptyLists
    /\ exhausted
    /\ Requests = Patience + 1
    /\ spc = "returned"
    /\ ret.tag = "tuple"
    /\ ret.addresses = {}

-----------------------------------------------------------------------------
(* The frontier engine at its deadline: properties                         *)

\* C12: from the cancellation of the pending tasks on, no record is installed
\* in res and no installed record changes its id, spectred, error or loc; once
\* the finally block has dropped the neighbors of the kept records, res is
\* not modified at all, whatever the cancelled tasks do.
C12_CancelledInstallsNothing ==
    [][ /\ mpc \in {"finally", "shutdown", "returned"} =>
              /\ DOMAIN res' = DOMAIN res
              /\ \A a \in DOMAIN res : StripNeighbors(res'[a]) = StripNeighbors(res[a])
        /\ mpc \in {"shutdown", "returned"} => res' = res ]_vars

C12_Witness ==
    /\ mpc = "returned"
    /\ \E t \in DOMAIN tasks :
          /\ tasks[t].st = "finished"
          /\ tasks[t].kind = "rec"
          /\ tasks[t].address \notin DOMAIN res

\* C13: once the deadline has passed, main leaves its loop and cancels every
\* pending task, whether or not a task completes after the deadline.
C13_DeadlineLeadsToCancel ==
    deadline ~> (mpc \in {"shutdown", "returned"} /\ InFlight = {})

-----------------------------------------------------------------------------
(* The geolocation lookups of one crawl: properties                        *)

\* the lookups made so far in the crawl, the one in progress or just
\* finished included
Lookups ==
    Append(geo_log, [address |-> address, host |-> HostOf(address), loc |-> loc,
                     calls |-> http_calls, raised |-> exc # PyNone])

\* C14: within one crawl a later lookup of a host that was looked up before
\* makes no HTTP call and gives the result of the earlier lookup.
C14_OneCallPerHost ==
    spc = "aexit" =>
        \A i, j \in DOMAIN Lookups :
            i < j /\ Lookups[i].host = Lookups[j].host =>
                /\ Lookups[j].calls = 0
                /\ Lookups[j].loc = Lookups[i].loc
                /\ Lookups[j].raised = Lookups[i].raised

-----------------------------------------------------------------------------
(* The snapshot file: properties                                           *)

\* C17: at every point a reader of the output file finds a complete
\* snapshot, the previous one or the new one, and a write that fails midway
\* leaves the previous snapshot in the file.
C17_WriteAllOrNothing ==
    /\ "nodes" \in DOMAIN output
    /\ readings \subseteq {"previous", "new"}
    /\ mpc = "raised" => output = PreviousSnapshot

-----------------------------------------------------------------------------
(* Failure and shutdown paths: properties                                  *)

\* C21: a task that fails after the peer's version frame was received
\* returns the peer id and the user agent of that frame, and every address
\* collected before the failure.
C21_FailureKeepsPeerIdentity ==
    spc = "returned" /\ ret.tag = "tuple" /\ ret.error # NoError
                     /\ node_peer_id # PyNone =>
        /\ ret.peer_id = node_peer_id.val
        /\ ret.peer_spectred = node_peer_spectred.val
        /\ ret.addresses = addrs

\* C22: when a task whose channel was opened has finished by cancellation,
\* the sentinel is on the outbound queue and the stream was cancelled.
C22_CancelPutsSentinelAndAborts ==
    spc = "returned" /\ exc = CancelledError /\ stream # "none" =>
        /\ BagIn(Sentinel, send_queue)
        /\ stream = "cancelled"

\* C23: no entry of res is overwritten once it is installed, and every task
\* that main has handled has a record in res under its address.
C23_OneRecordWrittenOnce ==
    /\ [](\A t \in DOMAIN tasks :
            tasks[t].st = "handled" => tasks[t].address \in DOMAIN res)
    /\ [][ \A t \in done :
             tasks'[t].st = "handled" /\ tasks[t].result.tag = "tuple"
                 => tasks[t].address \notin DOMAIN res ]_vars

\* C26: once main has been left, by return or by an exception, no task it
\* created is still running or still unwinding from its cancellation.
C26_NoTaskOutlivesMain ==
    mpc \in {"returned", "raised"} =>
        \A t \in DOMAIN tasks : tasks[t].st \notin {"running", "cancelled"}

-----------------------------------------------------------------------------
(* The crawl as a whole: properties                                        *)

\* every public address that parses, reported in a result main has handled,
\* is in seen and has a task of its own that main has handled
ClosedUnderDiscovery ==
    \A w \in reported :
        Parses(w[2]) /\ ~is_private(w[2]) /\ ~is_loopback(w[2]) =>
            LET a == NewAddress(w[2], w[3])
            IN  /\ a \in seen
                /\ \E t \in DOMAIN tasks : tasks[t].address = a /\ tasks[t].st = "handled"

\* C24: when every task ends and the deadline is not reached, main leaves
\* its loop and returns; when it leaves the loop pending is empty and the
\* crawl is closed under discovery.
C24_TerminatesClosedUnderDiscovery ==
    /\ <>(mpc = "returned")
    /\ [](mpc \in {"finally", "shutdown", "returned"} =>
            ~deadline /\ pending = {} /\ ClosedUnderDiscovery)

C24_Witness ==
    /\ mpc = "returned"
    /\ ~deadline
    /\ W(1, IpV6) \in reported
    /\ W(1, IpA) \in reported
    /\ \E t \in DOMAIN tasks :
          /\ tasks[t].address = NewAddress(IpV6, DefaultPort)
          /\ tasks[t].st = "handled"

-----------------------------------------------------------------------------
(* The crawl of a fixed network: properties                                *)

\* C25: in a fixed network and before the deadline, the kept map main ends
\* with is the kept map of the crawl in which tasks complete in the order of
\* their creation, whatever the order in which they did complete and whichever
\* peer's result created the task of an address.
C25_KeptMapIndependentOfOrder ==
    mpc = "returned" => clean_res = InOrderKept

\* a finished crawl that kept two records or more and created its tasks in
\* another order than the crawl in order did
C25_Witness ==
    /\ mpc = "returned"
    /\ Cardinality(DOMAIN clean_res) >= 2
    /\ Len(tasks) = Len(InOrder.queue)
    /\ \E i \in DOMAIN tasks : tasks[i].address # InOrder.queue[i].address

====
